---- MODULE Spec2Model ----
(***************************************************************************)
(* The data-validation and data-preparation cells of                       *)
(* MLOps_Episode_3_Data_Preparation.ipynb as a state machine.              *)
(*                                                                         *)
(* A DataFrame is an object on a heap (frames) that the notebook's names   *)
(* refer to; a row carries its index label.  Ages are float64: a present   *)
(* age is held as a whole number of half years (the median of an even      *)
(* count of whole ages is a multiple of 1/2), an absent one (NaN) as the   *)
(* empty tuple.  The scaler's arithmetic is IEEE-754 binary64, modelled    *)
(* bit for bit: a float is a sign, an odd significand (limbs, least         *)
(* significant first) and a binary exponent.                               *)
(***************************************************************************)
EXTENDS Integers, Sequences, FiniteSets

(***************************************************************************)
(* Natural numbers of any size: sequences of limbs in 0..Base-1, least     *)
(* significant first, without high zero limbs.                             *)
(***************************************************************************)
LimbBits == 15
Base == 2^LimbBits

RECURSIVE Trim(_)
\* N without its high zero limbs.
Trim(N) ==
    IF N = <<>> THEN <<>>
    ELSE IF N[Len(N)] = 0 THEN Trim(SubSeq(N, 1, Len(N) - 1))
    ELSE N

\* The limbs of a natural number n < Base^2.
NatLimbs(n) == Trim(<<n % Base, n \div Base>>)

LimbAt(N, i) == IF i <= Len(N) THEN N[i] ELSE 0

RECURSIVE MulSmallFrom(_, _, _, _)
MulSmallFrom(N, k, i, carry) ==
    IF i > Len(N) THEN NatLimbs(carry)
    ELSE <<(N[i] * k + carry) % Base>>
             \o MulSmallFrom(N, k, i + 1, (N[i] * k + carry) \div Base)

\* N * k for a natural k < Base.
MulSmall(N, k) == Trim(MulSmallFrom(N, k, 1, 0))

RECURSIVE AddFrom(_, _, _, _)
AddFrom(A, B, i, carry) ==
    IF i > Len(A) /\ i > Len(B) THEN NatLimbs(carry)
    ELSE <<(LimbAt(A, i) + LimbAt(B, i) + carry) % Base>>
             \o AddFrom(A, B, i + 1,
                        (LimbAt(A, i) + LimbAt(B, i) + carry) \div Base)

AddNat(A, B) == Trim(AddFrom(A, B, 1, 0))

RECURSIVE SubFrom(_, _, _, _)
SubFrom(A, B, i, borrow) ==
    IF i > Len(A) THEN <<>>
    ELSE LET d == LimbAt(A, i) - LimbAt(B, i) - borrow
         IN  <<d % Base>> \o SubFrom(A, B, i + 1, IF d < 0 THEN 1 ELSE 0)

\* A - B, for A >= B.
SubNat(A, B) == Trim(SubFrom(A, B, 1, 0))

RECURSIVE GeqFrom(_, _, _)
GeqFrom(A, B, i) ==
    IF i = 0 THEN TRUE
    ELSE IF A[i] # B[i] THEN A[i] > B[i]
    ELSE GeqFrom(A, B, i - 1)

\* A >= B.
GeqNat(A, B) ==
    IF Len(A) # Len(B) THEN Len(A) > Len(B) ELSE GeqFrom(A, B, Len(A))

\* The number of bits of a limb v > 0.
LimbLen(v) == CHOOSE n \in 1..LimbBits : 2^(n - 1) <= v /\ v < 2^n

\* The number of bits of N.
BitLen(N) ==
    IF N = <<>> THEN 0 ELSE LimbBits * (Len(N) - 1) + LimbLen(N[Len(N)])

\* Bit k of N, bit 0 the lowest.
BitOf(N, k) == (LimbAt(N, k \div LimbBits + 1) \div 2^(k % LimbBits)) % 2

\* Whether one of the k lowest bits of N is set.
LowBitsSet(N, k) ==
    \/ \E i \in 1..(k \div LimbBits) : LimbAt(N, i) # 0
    \/ LimbAt(N, k \div LimbBits + 1) % 2^(k % LimbBits) # 0

\* N * 2^k.
ShiftLeft(N, k) ==
    IF N = <<>> THEN <<>>
    ELSE [i \in 1..(k \div LimbBits) |-> 0] \o MulSmall(N, 2^(k % LimbBits))

\* N divided by 2^k, the remainder dropped.
ShiftRight(N, k) ==
    LET q == k \div LimbBits
        r == k % LimbBits
    IN  Trim([i \in 1..(IF Len(N) > q THEN Len(N) - q ELSE 0) |->
                 N[i + q] \div 2^r + (LimbAt(N, i + q + 1) % 2^r) * 2^(LimbBits - r)])

\* The number of zero bits below the lowest set bit of N # 0.
LowZeros(N) ==
    LET i == CHOOSE j \in 1..Len(N) : N[j] # 0 /\ \A h \in 1..(j - 1) : N[h] = 0
        b == CHOOSE c \in 0..(LimbBits - 1) :
                 N[i] % 2^c = 0 /\ (N[i] \div 2^c) % 2 = 1
    IN  LimbBits * (i - 1) + b

RECURSIVE DivSmallFrom(_, _, _, _)
\* <<quotient limbs, remainder>> of the limbs N[1..i] with rem above them, by k.
DivSmallFrom(N, k, i, rem) ==
    IF i = 0 THEN <<<<>>, rem>>
    ELSE LET cur  == rem * Base + N[i]
             rest == DivSmallFrom(N, k, i - 1, cur % k)
         IN  <<rest[1] \o <<cur \div k>>, rest[2]>>

\* <<N \div k, N % k>> for a natural 0 < k < Base.
DivSmall(N, k) ==
    LET qr == DivSmallFrom(N, k, Len(N), 0) IN <<Trim(qr[1]), qr[2]>>

(***************************************************************************)
(* IEEE-754 binary64 values: (-1)^neg * mant * 2^exp, mant odd or zero.    *)
(* Results stay in the normal range for the ages of the model.             *)
(***************************************************************************)
\* The significand width of a float64.
Mantissa == 53

FZero == [neg |-> FALSE, mant |-> <<>>, exp |-> 0]

\* The float of value (-1)^neg * N * 2^e, N of at most Mantissa bits.
Canon(neg, N, e) ==
    IF N = <<>> THEN FZero
    ELSE [neg |-> neg, mant |-> ShiftRight(N, LowZeros(N)), exp |-> e + LowZeros(N)]

\* (-1)^neg * (N + f) * 2^e rounded to the nearest float64, ties to even,
\* where 0 <= f < 1 and sticky tells whether f > 0.
Round53(neg, N, e, sticky) ==
    LET L == BitLen(N)
    IN  IF L <= Mantissa THEN Canon(neg, N, e)
        ELSE LET d    == L - Mantissa
                 kept == ShiftRight(N, d)
                 up   == /\ BitOf(N, d - 1) = 1
                         /\ \/ sticky
                            \/ LowBitsSet(N, d - 1)
                            \/ BitOf(kept, 0) = 1
             IN  Canon(neg, IF up THEN AddNat(kept, <<1>>) ELSE kept, e + d)

Abs(x) == IF x < 0 THEN -x ELSE x

\* The float64 of the age x2 / 2 (exact).
FromHalves(x2) == Canon(x2 < 0, NatLimbs(Abs(x2)), -1)

FOne == FromHalves(2)

FNeg(a) == IF a.mant = <<>> THEN a ELSE [a EXCEPT !.neg = ~a.neg]

\* a + b, rounded.
FAdd(a, b) ==
    IF a.mant = <<>> THEN b
    ELSE IF b.mant = <<>> THEN a
    ELSE LET e == IF a.exp < b.exp THEN a.exp ELSE b.exp
             A == ShiftLeft(a.mant, a.exp - e)
             B == ShiftLeft(b.mant, b.exp - e)
         IN  IF a.neg = b.neg THEN Round53(a.neg, AddNat(A, B), e, FALSE)
             ELSE IF GeqNat(A, B) THEN Round53(a.neg, SubNat(A, B), e, FALSE)
             ELSE Round53(b.neg, SubNat(B, A), e, FALSE)

\* a * (x2 / 2), rounded: the product of a float64 and an age.
FMulHalves(a, x2) ==
    Round53(a.neg # (x2 < 0), MulSmall(a.mant, Abs(x2)), a.exp - 1, FALSE)

\* Limbs of quotient computed below the binary point: enough for a
\* correctly rounded float64 reciprocal of an age difference.
GuardLimbs == (Mantissa + LimbBits) \div LimbBits + 2

\* 1.0 / (r2 / 2), rounded, for 0 < r2 < Base.
FRecip(r2) ==
    LET qr == DivSmall([i \in 1..(GuardLimbs + 1) |->
                           IF i = GuardLimbs + 1 THEN 2 ELSE 0], r2)
    IN  Round53(FALSE, qr[1], -(LimbBits * GuardLimbs), qr[2] # 0)

\* a <= b.
FLeq(a, b) == ~FAdd(b, FNeg(a)).neg


(***************************************************************************)
(* Values and records.                                                     *)
(***************************************************************************)
\* A float64 cell: NaN, or <<v>> for a present value v.
NaN == <<>>

\* None in an object column.
None == "None"

\* An age of n whole years, in half years.
Years(n) == <<2 * n>>

Columns == {"user_id", "name", "email", "age"}

\* isnull() of a cell of column c: NaN in the float column, None in an
\* object column; the integer column holds no missing value.
IsNull(c, v) ==
    CASE c = "age" -> v = NaN
      [] c \in {"name", "email"} -> v = None
      [] OTHER -> FALSE

\* The four distinct records of data_with_issues.
John  == [user_id |-> 1, name |-> "John Doe",
          email |-> "john.doe@example.com", age |-> Years(28)]
Jane  == [user_id |-> 2, name |-> "Jane Smith",
          email |-> "jane.smith@example.com", age |-> NaN]
Sam   == [user_id |-> 3, name |-> "Sam Johnson",
          email |-> None, age |-> Years(22)]
Emily == [user_id |-> 4, name |-> "Emily Davis",
          email |-> "emily.davis@example.com", age |-> Years(120)]

\* The records of the notebook's data_with_issues literal, in order.
Example == <<John, Jane, Sam, Emily, Emily>>

\* A record with a negative age and no email, for the age < 0 test.
Alex  == [user_id |-> 5, name |-> "Alex Roe", email |-> None, age |-> Years(-1)]

Records == {John, Jane, Sam, Emily, Alex}

\* The longest recordset drawn besides Example.
MaxRows == 4

RECURSIVE SeqsUpTo(_, _)
\* The sequences over S of length 1..n.
SeqsUpTo(S, n) ==
    IF n = 0 THEN {}
    ELSE SeqsUpTo(S, n - 1) \cup [1..n -> S]

Inputs == {Example} \cup SeqsUpTo(Records, MaxRows)

\* pd.DataFrame(dict): the rows under a fresh RangeIndex 0..n-1.
DataFrame(recs) ==
    [i \in 1..Len(recs) |->
        [index |-> i - 1, user_id |-> recs[i].user_id, name |-> recs[i].name,
         email |-> recs[i].email, age |-> recs[i].age]]

\* The rows of df at the positions pos, in that order (iloc / boolean mask).
Take(df, pos) == [k \in 1..Len(pos) |-> df[pos[k]]]

RECURSIVE Where(_, _, _)
\* The positions i..n of df whose row satisfies the mask, ascending.
Where(mask, i, n) ==
    IF i > n THEN <<>>
    ELSE (IF mask[i] THEN <<i>> ELSE <<>>) \o Where(mask, i + 1, n)

\* df[mask]: a new frame of the rows the boolean mask selects.
Filter(df, mask) == Take(df, Where(mask, 1, Len(df)))


(***************************************************************************)
(* The validation cell's library calls.                                    *)
(***************************************************************************)
\* data_with_issues.isnull().sum(): the count of missing cells per column.
IsNullSum(df) ==
    [c \in Columns |-> Cardinality({i \in 1..Len(df) : IsNull(c, df[i][c])})]

\* series > n and series < n on the age column: False on NaN.
GtOrNaN(v, n) == v = NaN \/ v[1] > 2 * n
Gt(v, n) == v # NaN /\ v[1] > 2 * n
Lt(v, n) == v # NaN /\ v[1] < 2 * n

\* (data_with_issues['age'] > 100) | (data_with_issues['age'] < 0)
OutlierMask(df) == [i \in 1..Len(df) |-> Gt(df[i].age, 100) \/ Lt(df[i].age, 0)]

\* The hashed key of a row: its cells without the index; NaN hashes like NaN.
RowKey(r) == <<r.user_id, r.name, r.email, r.age>>

RECURSIVE SeenBefore(_, _, _)
\* For the rows i..n in order: whether the row's key was met before.
SeenBefore(df, i, seen) ==
    IF i > Len(df) THEN <<>>
    ELSE <<RowKey(df[i]) \in seen>>
             \o SeenBefore(df, i + 1, seen \cup {RowKey(df[i])})

Reverse(s) == [i \in 1..Len(s) |-> s[Len(s) + 1 - i]]

\* DataFrame.duplicated(keep=...)
LastBased(df) == Reverse(SeenBefore(Reverse(df), 1, {}))
Duplicated(df, keep) ==
    CASE keep = "first" -> SeenBefore(df, 1, {})
      [] keep = "last"  -> LastBased(df)
      [] OTHER          -> [i \in 1..Len(df) |->
                               SeenBefore(df, 1, {})[i] \/ LastBased(df)[i]]

(***************************************************************************)
(* The preparation cell's library calls.                                   *)
(***************************************************************************)
\* The keep argument drop_duplicates() passes on by default.
DropKeepLast == "last"
DropKeep == "first"

\* DataFrame.drop_duplicates(): the rows not duplicated, labels kept.
DropDuplicates(df) ==
    Filter(df, [i \in 1..Len(df) |-> ~Duplicated(df, DropKeep)[i]])

\* The object drop_duplicates() returns: a new frame, never its receiver.
SameObject(self, heapSize) == self
NewObject(self, heapSize) == heapSize + 1

\* The present values of the age column, in half years.
PresentAges(df) ==
    LET present(r) == r.age # NaN
        kept == SelectSeq(df, present)
    IN  [i \in 1..Len(kept) |-> kept[i].age[1]]

\* The k-th smallest of the values v.
Kth(v, k) ==
    LET i == CHOOSE j \in 1..Len(v) :
                 /\ Cardinality({h \in 1..Len(v) : v[h] < v[j]}) < k
                 /\ k <= Cardinality({h \in 1..Len(v) : v[h] <= v[j]})
    IN  v[i]

\* Series.median(): NaN skipped; the middle value, or the mean of the two
\* middle values; NaN when no value is present.
Median(v) ==
    IF Len(v) = 0 THEN NaN
    ELSE IF Len(v) % 2 = 1 THEN <<Kth(v, (Len(v) + 1) \div 2)>>
    ELSE <<(Kth(v, Len(v) \div 2) + Kth(v, Len(v) \div 2 + 1)) \div 2>>

\* The series the median is taken of: data_cleaned['age'].
MedianOfRaw(cleaned, original) == Median(PresentAges(original))
FillValue(cleaned, original) == Median(PresentAges(cleaned))

\* Series.fillna(value): NaN cells replaced, a NaN value replaces nothing.
FillNa(df, value) ==
    [i \in 1..Len(df) |->
        IF df[i].age = NaN THEN [df[i] EXCEPT !.age = value] ELSE df[i]]

SeqMin(v) == CHOOSE x \in {v[i] : i \in 1..Len(v)} : \A i \in 1..Len(v) : x <= v[i]
SeqMax(v) == CHOOSE x \in {v[i] : i \in 1..Len(v)} : \A i \in 1..Len(v) : x >= v[i]

\* _handle_zeros_in_scale: a zero data range is replaced by 1.0.
HandleZeros(range2) == IF range2 = 0 THEN 2 ELSE range2

\* min_ = feature_range[0] - data_min * scale_, feature_range = (0, 1).
NoOffset(scale, min2) == FZero
MinOffset(scale, min2) == FAdd(FZero, FNeg(FMulHalves(scale, min2)))

\* MinMaxScaler().fit(X): nanmin, nanmax, scale_ = (1 - 0) / data_range.
Fit(v) ==
    IF Len(v) = 0
    THEN [data_min |-> NaN, data_max |-> NaN, scale_ |-> NaN, min_ |-> NaN]
    ELSE LET mn == SeqMin(v)
             mx == SeqMax(v)
             sc == FRecip(HandleZeros(mx - mn))
         IN  [data_min |-> <<mn>>, data_max |-> <<mx>>,
              scale_ |-> <<sc>>, min_ |-> <<MinOffset(sc, mn)>>]

\* MinMaxScaler.transform of one cell: X *= scale_; X += min_ (no clip).
Transform(sclr, age) ==
    IF age = NaN \/ sclr.scale_ = NaN THEN NaN
    ELSE <<FAdd(FMulHalves(sclr.scale_[1], age[1]), sclr.min_[1])>>

\* data_cleaned['age_scaled'] = values: the column added to the frame.
SetAgeScaled(df, sclr) ==
    [i \in 1..Len(df) |->
        [index |-> df[i].index, user_id |-> df[i].user_id, name |-> df[i].name,
         email |-> df[i].email, age |-> df[i].age,
         age_scaled |-> Transform(sclr, df[i].age)]]


(***************************************************************************)
(* train_test_split.  numpy's RandomState (a Mersenne Twister) is          *)
(* abstracted to a small linear congruential generator: what the model     *)
(* keeps is that a permutation is a function of the generator's state and  *)
(* of n, that drawing advances the state, and that an integer random_state *)
(* seeds a generator of the call's own.                                    *)
(***************************************************************************)
RngModulus == 101
RngMul == 37
RngInc == 11

\* RandomState(seed)
Seeded(seed) == seed % RngModulus

Advance(st) == (RngMul * st + RngInc) % RngModulus

Swap(x, a, b) == [x EXCEPT ![a] = x[b], ![b] = x[a]]

RECURSIVE Shuffle(_, _, _)
\* RandomState.shuffle: for i = n-1 down to 1, swap x[i] with x[j], j drawn
\* from 0..i.  The shuffled sequence and the state left behind.
Shuffle(x, i, st) ==
    IF i < 1 THEN [perm |-> x, state |-> st]
    ELSE Shuffle(Swap(x, i + 1, (Advance(st) % (i + 1)) + 1), i - 1, Advance(st))

\* RandomState.permutation(n): arange(n), shuffled (positions from 1 here).
Permutation(st, n) == Shuffle([k \in 1..n |-> k], n - 1, st)

\* check_random_state(seed) for an integer seed: a new RandomState(seed),
\* not the generator np.random shares.
SharedRandomState(seed, shared) == [state |-> shared, shared |-> TRUE]
CheckRandomState(seed, shared) == [state |-> Seeded(seed), shared |-> FALSE]

\* n_test = ceil(test_size * n_samples), test_size the fraction t[1] / t[2].
NTestRounded(t, n) == (2 * t[1] * n + t[2]) \div (2 * t[2])
NTest(t, n) == (t[1] * n + t[2] - 1) \div t[2]

\* ind_train = permutation[n_test:(n_test + n_train)]
TrainFromTestEnd(perm, n_test, n_train) == SubSeq(perm, n_test, n_test + n_train - 1)
TrainIndices(perm, n_test, n_train) == SubSeq(perm, n_test + 1, n_test + n_train)

\* ind_test = permutation[:n_test]
TestIndices(perm, n_test) == SubSeq(perm, 1, n_test)

\* train_test_split(df, test_size=t, random_state=seed): ValueError when
\* the train set would be empty; else the rows at the permuted positions.
\* shared is the state of the generator np.random shares.
TrainTestSplit(df, t, seed, shared) ==
    LET n       == Len(df)
        n_test  == NTest(t, n)
        n_train == n - n_test
        rng     == CheckRandomState(seed, shared)
        sh      == Permutation(rng.state, n)
    IN  IF n_train <= 0
        THEN [ok |-> FALSE, train |-> <<>>, test |-> <<>>, shared |-> shared]
        ELSE [ok |-> TRUE,
              train |-> Take(df, TrainIndices(sh.perm, n_test, n_train)),
              test |-> Take(df, TestIndices(sh.perm, n_test)),
              shared |-> IF rng.shared THEN sh.state ELSE shared]

\* The test_size values drawn: the notebook's 0.2, and 0.4 and 0.75.
TestSizes == {<<1, 5>>, <<2, 5>>, <<3, 4>>}

\* The random_state values drawn: the notebook's 42, and 7.
Seeds == {42, 7}

\* The number of runs of the preparation cell.
MaxCalls == 2

(***************************************************************************)
(* The kernel's state.                                                     *)
(***************************************************************************)
VARIABLES
    raw,               \* the records of the data_with_issues literal
    pc,                \* the statement to execute next
    frames,            \* the heap of mutable DataFrame objects
    data_with_issues,  \* the frame the name is bound to (0: unbound)
    data_cleaned,      \* the frame the name is bound to (0: unbound)
    missing_values,    \* <<counts>> once bound
    outliers,          \* the outlier rows
    duplicates,        \* the duplicated rows
    fill_value,        \* <<median>> once fillna's argument was evaluated
    scaler,            \* <<fitted attributes>> once fit
    train,             \* the train rows
    test,              \* the test rows
    np_random,         \* the state of the generator np.random shares
    calls,             \* every train_test_split call: arguments and result
    steps              \* the statements of this run of the preparation cell

vars == <<raw, pc, frames, data_with_issues, data_cleaned, missing_values,
          outliers, duplicates, fill_value, scaler, train, test, np_random,
          calls, steps>>

Unset == <<>>

InitFrom(inputs) ==
    /\ raw \in inputs
    /\ pc = "v_construct"
    /\ frames = <<>>
    /\ data_with_issues = 0
    /\ data_cleaned = 0
    /\ missing_values = Unset
    /\ outliers = Unset
    /\ duplicates = Unset
    /\ fill_value = Unset
    /\ scaler = Unset
    /\ train = Unset
    /\ test = Unset
    /\ np_random = 0
    /\ calls = <<>>
    /\ steps = <<>>

Init == InitFrom(Inputs)

\* data_with_issues = pd.DataFrame({...}) in the validation cell.
V_Construct ==
    /\ pc = "v_construct"
    /\ frames' = Append(frames, DataFrame(raw))
    /\ data_with_issues' = Len(frames) + 1
    /\ pc' = "v_missing"
    /\ UNCHANGED <<raw, data_cleaned, missing_values, outliers, duplicates,
                   fill_value, scaler, train, test, np_random, calls, steps>>

\* missing_values = data_with_issues.isnull().sum()
V_MissingValues ==
    /\ pc = "v_missing"
    /\ missing_values' = <<IsNullSum(frames[data_with_issues])>>
    /\ pc' = "v_outliers"
    /\ UNCHANGED <<raw, frames, data_with_issues, data_cleaned, outliers,
                   duplicates, fill_value, scaler, train, test, np_random,
                   calls, steps>>

\* outliers = data_with_issues[(age > 100) | (age < 0)]
V_Outliers ==
    /\ pc = "v_outliers"
    /\ outliers' = Filter(frames[data_with_issues],
                          OutlierMask(frames[data_with_issues]))
    /\ pc' = "v_duplicates"
    /\ UNCHANGED <<raw, frames, data_with_issues, data_cleaned, missing_values,
                   duplicates, fill_value, scaler, train, test, np_random,
                   calls, steps>>

\* duplicates = data_with_issues[data_with_issues.duplicated(keep=False)]
V_Duplicates ==
    /\ pc = "v_duplicates"
    /\ duplicates' = Filter(frames[data_with_issues],
                            Duplicated(frames[data_with_issues], "False"))
    /\ pc' = "p_construct"
    /\ UNCHANGED <<raw, frames, data_with_issues, data_cleaned, missing_values,
                   outliers, fill_value, scaler, train, test, np_random,
                   calls, steps>>

\* The preparation cell: data_with_issues = pd.DataFrame({...}) again, and
\* duplicates = data_with_issues[data_with_issues.duplicated(keep=False)].
P_Construct ==
    /\ pc = "p_construct"
    /\ frames' = Append(frames, DataFrame(raw))
    /\ data_with_issues' = Len(frames) + 1
    /\ duplicates' = Filter(DataFrame(raw), Duplicated(DataFrame(raw), "False"))
    /\ pc' = "p_dedup"
    /\ UNCHANGED <<raw, data_cleaned, missing_values, outliers, fill_value,
                   scaler, train, test, np_random, calls, steps>>

\* data_cleaned = data_with_issues.drop_duplicates()
P_DropDuplicates ==
    /\ pc = "p_dedup"
    /\ LET obj == NewObject(data_with_issues, Len(frames))
           res == DropDuplicates(frames[data_with_issues])
       IN  /\ frames' = IF obj > Len(frames) THEN Append(frames, res)
                        ELSE [frames EXCEPT ![obj] = res]
           /\ data_cleaned' = obj
    /\ steps' = Append(steps, "drop_duplicates")
    /\ pc' = "p_fill"
    /\ UNCHANGED <<raw, data_with_issues, missing_values, outliers, duplicates,
                   fill_value, scaler, train, test, np_random, calls>>

\* data_cleaned['age'].fillna(data_cleaned['age'].median(), inplace=True)
\* The receiver is the intermediate Series data_cleaned['age'].  Which
\* object the in-place fill reaches depends on the pandas the unpinned
\* "pip install pandas" provides: without Copy-on-Write (pandas < 3) the
\* Series shares the frame's column and the frame is filled; with
\* Copy-on-Write (pandas >= 3) the Series is filled on its own copy and
\* the frame is left as it was.
P_FillNa ==
    /\ pc = "p_fill"
    /\ fill_value' = <<FillValue(frames[data_cleaned], frames[data_with_issues])>>
    /\ \/ frames' = [frames EXCEPT ![data_cleaned] =
                        FillNa(frames[data_cleaned], fill_value'[1])]
       \/ frames' = frames
    /\ steps' = Append(steps, "fillna")
    /\ pc' = "p_scale"
    /\ UNCHANGED <<raw, data_with_issues, data_cleaned, missing_values,
                   outliers, duplicates, scaler, train, test, np_random, calls>>

\* scaler = MinMaxScaler()
\* data_cleaned['age_scaled'] = scaler.fit_transform(data_cleaned[['age']])
P_Scale ==
    /\ pc = "p_scale"
    /\ scaler' = <<Fit(PresentAges(frames[data_cleaned]))>>
    /\ frames' = [frames EXCEPT ![data_cleaned] =
                     SetAgeScaled(frames[data_cleaned], scaler'[1])]
    /\ steps' = Append(steps, "fit_transform")
    /\ pc' = "p_split"
    /\ UNCHANGED <<raw, data_with_issues, data_cleaned, missing_values,
                   outliers, duplicates, fill_value, train, test, np_random,
                   calls>>

\* The call train_test_split(data_cleaned, test_size=t, random_state=seed)
\* and the binding of train and test when it returns.
SplitCall(t, seed, next) ==
    LET r == TrainTestSplit(frames[data_cleaned], t, seed, np_random)
    IN  /\ calls' = Append(calls, [df |-> frames[data_cleaned], test_size |-> t,
                                   random_state |-> seed, ok |-> r.ok,
                                   train |-> r.train, test |-> r.test])
        /\ np_random' = r.shared
        /\ IF r.ok
           THEN train' = r.train /\ test' = r.test /\ pc' = next
           ELSE UNCHANGED <<train, test>> /\ pc' = "failed"

\* train, test = train_test_split(data_cleaned, test_size=0.2, random_state=42)
P_Split ==
    /\ pc = "p_split"
    /\ \E t \in TestSizes, seed \in Seeds : SplitCall(t, seed, "done")
    /\ steps' = Append(steps, "train_test_split")
    /\ UNCHANGED <<raw, frames, data_with_issues, data_cleaned, missing_values,
                   outliers, duplicates, fill_value, scaler>>

Next ==
    \/ V_Construct
    \/ V_MissingValues
    \/ V_Outliers
    \/ V_Duplicates
    \/ P_Construct
    \/ P_DropDuplicates
    \/ P_FillNa
    \/ P_Scale
    \/ P_Split

Spec == Init /\ [][Next]_vars

(***************************************************************************)
(* The cells on the prefixes of the notebook's own records, with the       *)
(* preparation cell run again in the same kernel.                          *)
(***************************************************************************)
NotebookInputs == {SubSeq(Example, 1, n) : n \in 1..Len(Example)}

InitNotebook == InitFrom(NotebookInputs)

\* The preparation cell run again in the same kernel: the names keep their
\* bindings until the cell's statements rebind them.
P_RunAgain ==
    /\ pc \in {"done", "failed"}
    /\ Len(calls) < MaxCalls
    /\ pc' = "p_construct"
    /\ steps' = <<>>
    /\ UNCHANGED <<raw, frames, data_with_issues, data_cleaned, missing_values,
                   outliers, duplicates, fill_value, scaler, train, test,
                   np_random, calls>>

NextNotebook == Next \/ P_RunAgain

NotebookSpec == InitNotebook /\ [][NextNotebook]_vars


(***************************************************************************)
(* Properties.                                                             *)
(***************************************************************************)
Labels(df) == {df[i].index : i \in 1..Len(df)}
Rows(df) == {df[i] : i \in 1..Len(df)}

\* The frame drop_duplicates was given, and the frame it produced.
Original == frames[data_with_issues]
Cleaned == frames[data_cleaned]

Scaled == pc \in {"p_split", "done", "failed"}

ClaimedTestSize(t, n) ==
    LET r == (2 * t[1] * n + t[2]) \div (2 * t[2])
    IN  IF r < 1 THEN 1 ELSE IF r > n - 1 THEN n - 1 ELSE r

\* The least integer k with k >= t * n.
CeilOf(t, n) ==
    CHOOSE k \in 0..n : k * t[2] >= t[1] * n /\ (k - 1) * t[2] < t[1] * n

\* C2 as claimed: for N >= 2 split returns a test set of round(t * N)
\* records, each of train and test having at least 1.
C2_Original ==
    \A k \in DOMAIN calls :
        Len(calls[k].df) >= 2 =>
            /\ calls[k].ok
            /\ Len(calls[k].test) = ClaimedTestSize(calls[k].test_size, Len(calls[k].df))
            /\ Len(calls[k].train) =
                   Len(calls[k].df) - ClaimedTestSize(calls[k].test_size, Len(calls[k].df))

\* C2 amended: for N >= 2 the test set has ceil(t * N) records and the
\* train set the other N - ceil(t * N); when ceil(t * N) = N split raises
\* and binds nothing; 4 records with t = 0.2 give 1 test and 3 train.
C2_Amended ==
    \A k \in DOMAIN calls :
        LET n == Len(calls[k].df)
            c == CeilOf(calls[k].test_size, n)
        IN  n >= 2 =>
                /\ calls[k].ok = (c < n)
                /\ calls[k].ok => /\ Len(calls[k].test) = c
                                  /\ Len(calls[k].train) = n - c
                                  /\ c >= 1
                /\ (~calls[k].ok /\ k = Len(calls)) => pc = "failed"
                /\ (~calls[k].ok /\ k = 1) => train = Unset /\ test = Unset
                /\ (n = 4 /\ calls[k].test_size = <<1, 5>>) =>
                       Len(calls[k].test) = 1 /\ Len(calls[k].train) = 3

C2_Witness ==
    /\ pc = "done"
    /\ Len(calls[1].df) = 3
    /\ calls[1].test_size = <<2, 5>>
    /\ Len(test) = 2
    /\ Len(train) = 1

SameArguments(a, b) ==
    /\ a.df = b.df
    /\ a.test_size = b.test_size
    /\ a.random_state = b.random_state

\* C3: two calls of train_test_split with the same frame, the same
\* test_size and the same random_state return the same train and the same
\* test, rows in the same order (or both raise).
C3_Deterministic ==
    \A i, j \in DOMAIN calls :
        SameArguments(calls[i], calls[j]) =>
            /\ calls[i].ok = calls[j].ok
            /\ calls[i].train = calls[j].train
            /\ calls[i].test = calls[j].test

C3_Witness ==
    /\ Len(calls) = 2
    /\ SameArguments(calls[1], calls[2])
    /\ calls[1].random_state = 42
    /\ calls[1].test_size = <<1, 5>>
    /\ Len(calls[1].df) = 4
    /\ calls[2].ok
    /\ calls[1].train = calls[2].train

\* Whether row i of df equals no earlier row in every field, two absent
\* values counting as equal.
FirstOccurrence(df, i) ==
    ~\E j \in 1..(i - 1) : \A c \in Columns : df[j][c] = df[i][c]

\* C4: drop_duplicates keeps exactly the records not equal in every field
\* to an earlier record (absent equal to absent), the first of each group,
\* in their order in the original.
C4_Deduplicate ==
    pc = "p_fill" =>
        /\ Labels(Cleaned) =
               {Original[i].index : i \in {h \in 1..Len(Original) :
                                              FirstOccurrence(Original, h)}}
        /\ \A k \in 1..Len(Cleaned) : Cleaned[k] = Original[Cleaned[k].index + 1]
        /\ \A k \in 1..(Len(Cleaned) - 1) : Cleaned[k].index < Cleaned[k + 1].index

C4_Witness ==
    /\ pc = "p_fill"
    /\ Len(raw) = 4
    /\ raw[1] = Jane /\ raw[3] = Jane /\ raw[2] = John /\ raw[4] = John
    /\ Len(Cleaned) = 2

\* C5 as claimed: once fillna has run and some age was present, the
\* cleaned frame handed to scaling and split has no absent age, every age
\* that was absent is the median, every age that was present is unchanged.
C5_FillComplete ==
    (pc \in {"p_scale", "p_split", "done", "failed"}
        /\ PresentAges(DropDuplicates(Original)) # <<>>) =>
        \A k \in 1..Len(Cleaned) :
            /\ Cleaned[k].age # NaN
            /\ Original[Cleaned[k].index + 1].age = NaN =>
                   Cleaned[k].age = fill_value[1]
            /\ Original[Cleaned[k].index + 1].age # NaN =>
                   Cleaned[k].age = Original[Cleaned[k].index + 1].age

Degenerate ==
    /\ PresentAges(Cleaned) # <<>>
    /\ SeqMax(PresentAges(Cleaned)) = SeqMin(PresentAges(Cleaned))

\* C7 as claimed: with max = min the scaling fails, and leaves no scaled
\* frame and no fitted scaler.
C7_Original ==
    (Scaled /\ Degenerate) =>
        /\ scaler = Unset
        /\ \A k \in 1..Len(Cleaned) : "age_scaled" \notin DOMAIN Cleaned[k]

\* C7 amended: with max = min the scaling does not fail: the scaler is
\* fitted with data_min = data_max and scale_ = 1.0, and every present age
\* is scaled to 0.0 (an absent age to NaN).
C7_Amended ==
    (Scaled /\ Degenerate) =>
        /\ scaler # Unset
        /\ scaler[1].data_min = scaler[1].data_max
        /\ scaler[1].data_min = <<SeqMin(PresentAges(Cleaned))>>
        /\ scaler[1].scale_ = <<FOne>>
        /\ \A k \in 1..Len(Cleaned) :
               Cleaned[k].age_scaled =
                   IF Cleaned[k].age = NaN THEN NaN ELSE <<FZero>>

C7_Witness ==
    /\ pc = "p_split"
    /\ Degenerate
    /\ Len(Cleaned) = 2
    /\ Cleaned[1].age = Years(28)
    /\ Cleaned[2].age = Years(28)

\* C8 as claimed: with max > min every scaled value lies in [0, 1], the
\* minimum is scaled to 0 and the maximum to 1, and the age is kept.
C8_Range ==
    (Scaled /\ PresentAges(Cleaned) # <<>> /\ ~Degenerate) =>
        \A k \in 1..Len(Cleaned) :
            Cleaned[k].age # NaN =>
                /\ FLeq(FZero, Cleaned[k].age_scaled[1])
                /\ FLeq(Cleaned[k].age_scaled[1], FOne)
                /\ Cleaned[k].age[1] = SeqMin(PresentAges(Cleaned)) =>
                       Cleaned[k].age_scaled[1] = FZero
                /\ Cleaned[k].age[1] = SeqMax(PresentAges(Cleaned)) =>
                       Cleaned[k].age_scaled[1] = FOne

\* Whether the cell of column c of record r is absent.
Absent(r, c) ==
    IF c = "age" THEN r.age = NaN
    ELSE IF c = "user_id" THEN FALSE
    ELSE r[c] = None

\* C9: the validation cell counts the absent cells per column, flags as
\* outliers exactly the records with a present age > 100 or < 0, and
\* reports every member of each group of equal records as duplicates; on
\* the notebook's records: email 1, age 1, outliers 3 and 4, duplicates 3
\* and 4.
C9_Validate ==
    pc = "p_construct" =>
        /\ missing_values[1] =
               [c \in Columns |->
                   Cardinality({i \in 1..Len(raw) : Absent(raw[i], c)})]
        /\ Labels(outliers) =
               {i - 1 : i \in {h \in 1..Len(raw) :
                   /\ raw[h].age # NaN
                   /\ raw[h].age[1] > 200 \/ raw[h].age[1] < 0}}
        /\ Labels(duplicates) =
               {i - 1 : i \in {h \in 1..Len(raw) :
                   \E j \in 1..Len(raw) : j # h /\ raw[j] = raw[h]}}
        /\ Rows(outliers) \cup Rows(duplicates) \subseteq Rows(Original)
        /\ Len(outliers) = Cardinality(Labels(outliers))
        /\ Len(duplicates) = Cardinality(Labels(duplicates))
        /\ raw = Example =>
               /\ missing_values[1] =
                      [user_id |-> 0, name |-> 0, email |-> 1, age |-> 1]
               /\ Labels(outliers) = {3, 4}
               /\ Labels(duplicates) = {3, 4}

C9_Witness ==
    /\ pc = "p_construct"
    /\ raw = Example
    /\ Len(outliers) = 2
    /\ Len(duplicates) = 2

IsPrefix(s, t) == Len(s) <= Len(t) /\ s = SubSeq(t, 1, Len(s))

\* C10: the preparation runs drop_duplicates, fillna, fit_transform,
\* train_test_split in this order; the fill median is taken over the
\* present ages of the deduplicated records (28 on the notebook's
\* records); the scaler's min and max are those of all deduplicated
\* records and are fitted before the split; every record of train and
\* test carries the age_scaled that this one scaler gives its age.
C10_Order ==
    /\ IsPrefix(steps, <<"drop_duplicates", "fillna", "fit_transform",
                         "train_test_split">>)
    /\ fill_value # Unset =>
           /\ fill_value[1] = Median(PresentAges(DropDuplicates(DataFrame(raw))))
           /\ raw = Example => fill_value[1] = Years(28)
    /\ scaler # Unset =>
           /\ Len(steps) >= 3
           /\ PresentAges(DropDuplicates(DataFrame(raw))) # <<>> =>
                  /\ scaler[1].data_min =
                         <<SeqMin(PresentAges(DropDuplicates(DataFrame(raw))))>>
                  /\ scaler[1].data_max =
                         <<SeqMax(PresentAges(DropDuplicates(DataFrame(raw))))>>
    /\ train # Unset =>
           /\ scaler # Unset
           /\ Len(steps) = 4
           /\ \A r \in Rows(train) \cup Rows(test) :
                  /\ r \in Rows(Cleaned)
                  /\ r.age_scaled = Transform(scaler[1], r.age)

C10_Witness ==
    /\ pc = "done"
    /\ raw = Example
    /\ fill_value = <<Years(28)>>
    /\ scaler[1].data_min = Years(22)
    /\ scaler[1].data_max = Years(120)
    /\ Len(train) = 3
    /\ Len(test) = 1

====
